---- MODULE Spec2Model ----
(***************************************************************************)
(* Model of the migration engine of node-db-migrate: the version model and *)
(* script discovery of lib/utils.js and the SchemaManager of lib/schema.js *)
(* (ledger table `schema_version`, baseline, revision, migrate, repair,    *)
(* clean and the transactional migration step).                            *)
(*                                                                         *)
(* Text is modelled as a sequence of one-character strings.  A parsed      *)
(* version ("1.10", "1.NaN.2") is modelled by the sequence of its          *)
(* components (<<1, 10>>, <<1, NaN, 2>>): parseVersion renders every       *)
(* component with parseInt, so the rendered text and the component         *)
(* sequence determine each other, and Render gives the text back when the  *)
(* code parses a stored version again.                                     *)
(***************************************************************************)
EXTENDS Integers, Sequences, FiniteSets, TLC

\* ------------------------------------------------------------------ text

\* JavaScript's NaN, the value of parseInt("").
NaN == -1

\* undefined and "" are both falsy; every use in the code tests truthiness only.
Missing == <<>>

DigitChars == <<"0", "1", "2", "3", "4", "5", "6", "7", "8", "9">>

IsDigit(c) == \E i \in 1..Len(DigitChars) : DigitChars[i] = c

DigitVal(c) == (CHOOSE i \in 1..Len(DigitChars) : DigitChars[i] = c) - 1

\* String.prototype.toLowerCase, on one character.
toLowerCase(c) ==
    CASE c = "V" -> "v"
      [] c = "S" -> "s"
      [] c = "Q" -> "q"
      [] c = "L" -> "l"
      [] c = "J" -> "j"
      [] OTHER -> c

LowerAll(s) == [i \in 1..Len(s) |-> toLowerCase(s[i])]

\* String.prototype.split("."): the parts between the dots, empty parts kept.
RECURSIVE SplitDots(_)
SplitDots(s) ==
    IF \A i \in 1..Len(s) : s[i] # "."
    THEN <<s>>
    ELSE LET p == CHOOSE i \in 1..Len(s) :
                      s[i] = "." /\ \A j \in 1..(i - 1) : s[j] # "."
         IN <<SubSeq(s, 1, p - 1)>> \o SplitDots(SubSeq(s, p + 1, Len(s)))

\* parseInt on a part the version pattern lets through: digits only, or empty.
RECURSIVE parseInt(_)
parseInt(n) ==
    IF n = <<>> THEN NaN
    ELSE IF Len(n) = 1 THEN DigitVal(n[1])
    ELSE parseInt(SubSeq(n, 1, Len(n) - 1)) * 10 + DigitVal(n[Len(n)])

\* Number to text, as Array.prototype.join renders a component.
RECURSIVE NumChars(_)
NumChars(n) ==
    IF n = NaN THEN <<"N", "a", "N">>
    ELSE IF n < 10 THEN <<DigitChars[n + 1]>>
    ELSE NumChars(n \div 10) \o <<DigitChars[(n % 10) + 1]>>

\* The text of a parsed version: its components joined by ".".
RECURSIVE Render(_)
Render(v) ==
    IF v = <<>> THEN <<>>
    ELSE IF Len(v) = 1 THEN NumChars(v[1])
    ELSE NumChars(v[1]) \o <<".">> \o Render(Tail(v))

\* ---------------------------------------------------------- version model

\* The pattern /^\d?([\d\.]+)?\d$/ : digits and dots only, ending in a digit.
VersionPattern(s) ==
    /\ Len(s) >= 1
    /\ IsDigit(s[Len(s)])
    /\ \A i \in 1..Len(s) : IsDigit(s[i]) \/ s[i] = "."

Thrown == [ok |-> FALSE, v |-> <<>>]

\* version.replace(/\_/g, '.')
Dotted(s) == [i \in 1..Len(s) |-> IF s[i] = "_" THEN "." ELSE s[i]]

\* _.map(version.split("."), parseInt), joined by "."
ParsedParts(parts) ==
    [ok |-> TRUE, v |-> [i \in 1..Len(parts) |-> parseInt(parts[i])]]

\* The pattern test of parseVersion and what follows it.
ParseDotted(dotted) ==
    IF ~VersionPattern(dotted) THEN Thrown ELSE ParsedParts(SplitDots(dotted))

\* parseVersion(version): [ok |-> FALSE] when it throws, else the parsed version.
parseVersion(version) ==
    IF version = Missing THEN Thrown
    ELSE ParseDotted(Dotted(IF toLowerCase(version[1]) = "v"
                            THEN Tail(version) ELSE version))

\* A component under unary plus followed by < or >: NaN is neither.
Less(a, b) == a # NaN /\ b # NaN /\ a < b

PadTo(v, n) == [i \in 1..n |-> IF i <= Len(v) THEN v[i] ELSE 0]

Longer(v1, v2) == IF Len(v1) > Len(v2) THEN Len(v1) ELSE Len(v2)

\* The loop of compareVersion over two part lists of equal length: the first
\* unequal pair decides.
ComparePadded(p1, p2) ==
    LET diff == {i \in 1..Len(p1) : Less(p1[i], p2[i]) \/ Less(p2[i], p1[i])}
    IN IF diff = {} THEN 0
       ELSE IF Less(p1[CHOOSE i \in diff : \A j \in diff : i <= j],
                    p2[CHOOSE i \in diff : \A j \in diff : i <= j])
       THEN -1 ELSE 1

\* compareVersion(v1, v2) on two versions given by their parts between the
\* dots; a falsy argument is Missing.
compareVersion(v1, v2) ==
    IF v1 = Missing THEN (IF v2 # Missing THEN -1 ELSE 0)
    ELSE IF v2 = Missing THEN 1
    ELSE ComparePadded(PadTo(v1, Longer(v1, v2)), PadTo(v2, Longer(v1, v2)))

\* ------------------------------------------------------- sequence helpers

\* Array.prototype.indexOf(x) > -1
Includes(seq, x) == \E i \in 1..Len(seq) : seq[i] = x

\* The elements of seq that satisfy Keep, in order (_.filter, _.compact).
RECURSIVE SelectIn(_, _)
SelectIn(seq, keep) ==
    IF seq = <<>> THEN <<>>
    ELSE IF Head(seq) \in keep THEN <<Head(seq)>> \o SelectIn(Tail(seq), keep)
    ELSE SelectIn(Tail(seq), keep)

\* _.flatten of a sequence of sequences.
RECURSIVE Flatten(_)
Flatten(seqs) ==
    IF seqs = <<>> THEN <<>> ELSE Head(seqs) \o Flatten(Tail(seqs))

\* The distinct `version` values of the records of seq, by first appearance.
RECURSIVE FirstSeen(_, _)
FirstSeen(seq, seen) ==
    IF seq = <<>> THEN <<>>
    ELSE IF Head(seq).version \in seen THEN FirstSeen(Tail(seq), seen)
    ELSE <<Head(seq).version>>
             \o FirstSeen(Tail(seq), seen \cup {Head(seq).version})

\* A property name that is a canonical array index: the text of one integer.
IsIndexKey(v) == Len(v) = 1 /\ v[1] # NaN

\* The indices of seq ordered by the integer key[i], ascending.
RECURSIVE AscendingBy(_, _)
AscendingBy(ids, key) ==
    IF ids = {} THEN <<>>
    ELSE LET m == CHOOSE i \in ids : \A j \in ids :
                      key[i] < key[j] \/ (key[i] = key[j] /\ i <= j)
         IN <<m>> \o AscendingBy(ids \ {m}, key)

\* Own-property order of a JavaScript object whose keys were created in the
\* order `created`: the array-index keys first, ascending by value, then the
\* other keys in creation order.  _.keys, _.mapValues and _.values follow it.
Permuted(seq, order) == [k \in 1..Len(seq) |-> seq[order[k]]]

PropertyOrder(created) ==
    Permuted(created,
        AscendingBy({i \in 1..Len(created) : IsIndexKey(created[i])},
                    [i \in 1..Len(created) |->
                        IF IsIndexKey(created[i]) THEN created[i][1] ELSE 0])
        \o AscendingBy({i \in 1..Len(created) : ~IsIndexKey(created[i])},
                       [i \in 1..Len(created) |-> i]))

\* _.groupBy(records, "version"): the keys in property order, and the group of
\* a key (its records in their order in seq).
GroupKeys(seq) == PropertyOrder(FirstSeen(seq, {}))

GroupOf(seq, version) ==
    SelectIn(seq, {seq[i] : i \in {j \in 1..Len(seq) : seq[j].version = version}})

\* ------------------------------------------------------- script discovery

ExtSql == <<".", "s", "q", "l">>
ExtJs  == <<".", "j", "s">>

\* path.extname: from the last dot on; empty when there is no dot or the only
\* dot is the first character.
LastIn(set) == CHOOSE i \in set : \A j \in set : j <= i

FirstIn(set) == CHOOSE i \in set : \A j \in set : i <= j

ExtFrom(basename, last) ==
    IF last = 1 THEN <<>> ELSE SubSeq(basename, last, Len(basename))

extname(basename) ==
    IF \A i \in 1..Len(basename) : basename[i] # "." THEN <<>>
    ELSE ExtFrom(basename, LastIn({i \in 1..Len(basename) : basename[i] = "."}))

getFileExtension(filename) == LowerAll(extname(filename))

\* String.prototype.indexOf("__"), 1-based; 0 when absent.
IndexOfSeparator(s) ==
    IF \A i \in 1..(Len(s) - 1) : ~(s[i] = "_" /\ s[i + 1] = "_") THEN 0
    ELSE FirstIn({i \in 1..(Len(s) - 1) : s[i] = "_" /\ s[i + 1] = "_"})

\* The raw version token: the basename up to the first "__", or all of it.
RawVersion(basename, pos) ==
    IF pos = 0 THEN basename ELSE SubSeq(basename, 1, pos - 1)

NoDescriptor == [ok |-> FALSE, script |-> <<>>, type |-> "SQL", version |-> <<>>]

DescriptorOf(basename, extension, version) ==
    IF extension \notin {ExtSql, ExtJs} THEN NoDescriptor
    ELSE IF ~version.ok THEN NoDescriptor
    ELSE [ok      |-> TRUE,
          script  |-> basename,
          type    |-> IF extension = ExtJs THEN "Node.js" ELSE "SQL",
          version |-> version.v]

\* parseFilename(migrationScript): [ok |-> FALSE] when it throws, else the
\* migration descriptor.
parseFilename(basename) ==
    DescriptorOf(basename, getFileExtension(basename),
                 parseVersion(RawVersion(basename, IndexOfSeparator(basename))))

\* Array.prototype.sort(compareVersion) on the group keys: an insertion sort,
\* which leaves keys that compare equal in their given order.
RECURSIVE SortVersions(_)
InsertAt(sorted, v, p) ==
    SubSeq(sorted, 1, p - 1) \o <<v>> \o SubSeq(sorted, p, Len(sorted))

InsertVersion(sorted, v) ==
    IF \A i \in 1..Len(sorted) : compareVersion(sorted[i], v) # 1
    THEN Append(sorted, v)
    ELSE InsertAt(sorted, v,
                  FirstIn({i \in 1..Len(sorted) : compareVersion(sorted[i], v) = 1}))

SortVersions(keys) ==
    IF keys = <<>> THEN <<>>
    ELSE InsertVersion(SortVersions(SubSeq(keys, 1, Len(keys) - 1)), keys[Len(keys)])

\* The filter without its test against the target version.
IncludedBeyondTarget(migration, targetVersion, baseVersion, baseVersionObjects) ==
    IF baseVersion # Missing /\ compareVersion(baseVersion, migration.version) = 1
    THEN FALSE
    ELSE IF /\ baseVersion # Missing
            /\ compareVersion(baseVersion, migration.version) = 0
            /\ Includes(baseVersionObjects, migration.script)
    THEN FALSE
    ELSE TRUE

\* The filter without its test against the scripts already recorded.
IncludedDespiteList(migration, targetVersion, baseVersion, baseVersionObjects) ==
    IF targetVersion # Missing /\ compareVersion(migration.version, targetVersion) = 1
    THEN FALSE
    ELSE IF baseVersion # Missing /\ compareVersion(baseVersion, migration.version) = 1
    THEN FALSE
    ELSE TRUE

\* The per-entry filter of discovery: TRUE when the descriptor is returned.
Included(migration, targetVersion, baseVersion, baseVersionObjects) ==
    IF targetVersion # Missing /\ compareVersion(migration.version, targetVersion) = 1
    THEN FALSE
    ELSE IF baseVersion # Missing /\ compareVersion(baseVersion, migration.version) = 1
    THEN FALSE
    ELSE IF /\ baseVersion # Missing
            /\ compareVersion(baseVersion, migration.version) = 0
            /\ Includes(baseVersionObjects, migration.script)
    THEN FALSE
    ELSE TRUE

\* A descriptor's `rank` before migrate assigns it (undefined: `rank || 1`).
NoRank == 0

\* What the mapper of discovery returns for one parsed entry: the descriptor,
\* or nothing.
Kept(migration, targetVersion, baseVersion, baseVersionObjects) ==
    IF migration.ok /\ Included(migration, targetVersion, baseVersion,
                                baseVersionObjects)
    THEN <<[script  |-> migration.script,
            type    |-> migration.type,
            version |-> migration.version,
            rank    |-> NoRank]>>
    ELSE <<>>

\* The descriptors discovery keeps, in listing order.
RECURSIVE Discovered(_, _, _, _)
Discovered(listing, targetVersion, baseVersion, baseVersionObjects) ==
    IF listing = <<>> THEN <<>>
    ELSE Kept(parseFilename(Head(listing)), targetVersion, baseVersion,
              baseVersionObjects)
         \o Discovered(Tail(listing), targetVersion, baseVersion,
                       baseVersionObjects)

\* if (version) version = parseVersion(version)
ParsedIfGiven(version) ==
    IF version # Missing THEN parseVersion(version) ELSE [ok |-> TRUE, v |-> Missing]

\* The groups of the kept descriptors, in the order `ver` of their keys.
Grouped(migrations, ver) ==
    [ok |-> TRUE, groups |-> [k \in 1..Len(ver) |-> GroupOf(migrations, ver[k])]]

GroupedByVersion(migrations) ==
    Grouped(migrations, SortVersions(GroupKeys(migrations)))

\* discovery after its arguments were parsed.
Discover(isDirectory, listing, target, base, baseVersionObjects) ==
    IF ~target.ok \/ ~base.ok \/ ~isDirectory THEN [ok |-> FALSE, groups |-> <<>>]
    ELSE GroupedByVersion(Discovered(listing, target.v, base.v, baseVersionObjects))

\* discovery(directory, targetVersion, baseVersion, baseVersionObjects):
\* [ok |-> FALSE] when it fails, else the groups of descriptors, one group per
\* version text, ordered by compareVersion.  `isDirectory` is the outcome of
\* lstat on the path, `listing` the result of readdir.  The versions given are
\* raw text (a caller's target, the rendered current version).
discovery(isDirectory, listing, targetVersion, baseVersion, baseVersionObjects) ==
    Discover(isDirectory, listing, ParsedIfGiven(targetVersion),
             ParsedIfGiven(baseVersion), baseVersionObjects)

\* ----------------------------------------------------------------- bounds

\* The number of engine calls (baseline, clean, revision, migrate, repair) in
\* one behaviour.
MaxCalls == 4

\* ------------------------------------------------------------ environment

FA   == <<"v", "1", "_", "1", "_", "_", "a", ".", "s", "q", "l">>
FB   == <<"v", "1", "_", "1", "_", "_", "b", ".", "s", "q", "l">>
FC   == <<"V", "0", "1", "_", "1", "_", "_", "c", ".", "j", "s">>
F2   == <<"v", "2", "_", "_", "d", ".", "s", "q", "l">>
F12  == <<"v", "1", "_", "2", "_", "_", "e", ".", "s", "q", "l">>
F120 == <<"v", "1", "_", "2", "_", "0", "_", "_", "f", ".", "S", "Q", "L">>
FT   == <<"n", "o", "t", "e", "s", ".", "t", "x", "t">>
\* A version token with an empty first part, which the version pattern lets
\* through.
FN   == <<"v", ".", "5", "_", "_", "g", ".", "s", "q", "l">>

\* Files at version 1.0.
F10H == <<"v", "1", "_", "0", "_", "_", "h", ".", "s", "q", "l">>
F10I == <<"v", "1", ".", "0", "_", "_", "i", ".", "j", "s">>

\* The data directories a behaviour may run against (readdir's listing).
Listings ==
    { <<FA, FB, FC>>,
      <<F2, FA, FT>>,
      <<F12, F120>>,
      <<FA, FN>>,
      <<FA, FB, F2>>,
      <<F10H, F2>> }

\* The versions a caller passes to baseline: "1.0", "1.5", "x", ".5", "1".
BaselineInputs ==
    { <<"1", ".", "0">>, <<"1", ".", "5">>, <<"x">>, <<".", "5">>, <<"1">> }

\* The target versions a caller passes to migrate: none, "1.1".
TargetInputs == { Missing, <<"1", ".", "1">> }

\* A directory other than the data directory.
Elsewhere == <<FB, F2>>

F19  == <<"v", "1", "_", "9", "_", "_", "j", ".", "s", "q", "l">>

\* A file with no "__" in its name.
FP   == <<"v", "1", "_", "2", ".", "s", "q", "l">>

\* The listings, targets, base versions and exclusion lists of direct calls of
\* discovery.
DirectListings ==
    Listings \cup { <<F12, F10H, FA, F10I>>, <<FN, F19, F2>>, <<FP, FA>> }

DirectTargets == { Missing, <<"1", ".", "1">>, <<"2">>, <<"1", ".", "2", ".", "0">> }

DirectBases == { Missing, <<"1", ".", "0">>, <<"1", ".", "1">>, <<"x">> }

ExclusionLists == { <<>>, <<F10H>>, <<FA, F12>> }

\* The texts of direct calls of parseVersion: "", "1", "001", "5_2", "V5.2",
\* ".5", "a.b", "1..2", "v", "1.", "1.2", "1.2.0", "1.9", "1.10", "2", "1.99".
VersionTexts ==
    { Missing, <<"1">>, <<"0", "0", "1">>, <<"5", "_", "2">>,
      <<"V", "5", ".", "2">>, <<".", "5">>, <<"a", ".", "b">>,
      <<"1", ".", ".", "2">>, <<"v">>, <<"1", ".">>,
      <<"1", ".", "2">>, <<"1", ".", "2", ".", "0">>, <<"1", ".", "9">>,
      <<"1", ".", "1", "0">>, <<"2">>, <<"1", ".", "9", "9">> }

\* The arguments of direct calls of compareVersion: no version, or a version
\* parseVersion returned.
ParsedVersions ==
    {Missing} \cup {parseVersion(t).v : t \in {u \in VersionTexts : parseVersion(u).ok}}

\* The descriptors of direct calls of _private._migration: none, or one with
\* or without a path and of a type that is or is not a known one.
NoMigration == [given |-> FALSE, hasPath |-> FALSE, type |-> "SQL",
                script |-> FA, version |-> <<1, 1>>, rank |-> 0]

Descriptors ==
    {NoMigration} \cup
    [given : {TRUE}, hasPath : BOOLEAN, type : {"SQL", "Node.js", "Shell"},
     script : {FA}, version : {<<1, 1>>}, rank : {0, 2}]

\* The schemas of the process that constructs several engines.
Schemas == {"A", "B"}

\* ------------------------------------------------------------------ state

VARIABLES
    dir,          \* the listing of the data directory
    tableExists,  \* the ledger table `schema_version` exists
    rows,         \* the ledger's rows, in primary-key (insertion) order
    op,           \* the call in flight: "idle", "migrate" or "repair"
    steps,        \* migrate: the groups discovery returned
    grp,          \* migrate: the index of the group being mapped
    todo,         \* migrate: indices of the group whose mapper has not run
    tx,           \* the migration steps in flight
    result,       \* how the last call settled ("none" while it is in flight)
    blame,        \* the step the error of a rejected call names
    ret,          \* the value the last revision() call resolved with
    calls,        \* calls made so far
    call,         \* history: the last call made and what it did at its start
    prev,         \* history: the call before it and how it settled
    rows0,        \* history: the ledger when the last call was made
    started,      \* history: the steps the last call started, in order, and
                  \* how the transaction of each ended
    instances,    \* the schemas a SchemaManager was constructed for
    bound,        \* _private._schema: the schema the module's store names
    ledgers,      \* per schema, the table `schema_version` and its rows
    used,         \* history: the last call's instance and the schema it used
    asked,        \* the arguments of the last direct call of Util.discovery
    answer,       \* what that call returned
    given,        \* the last direct call of parseVersion or compareVersion
    got,          \* what that call returned
    handed,       \* the descriptor of the last direct call of _private._migration
    ended         \* how that call ended

\* The process that constructs more than one SchemaManager.
process == <<instances, bound, ledgers, used>>

\* A caller of the utilities other than the engine.
direct == <<asked, answer, given, got, handed, ended>>

vars == <<dir, tableExists, rows, op, steps, grp, todo, tx, result, blame, ret,
          calls, call, prev, rows0, started, instances, bound, ledgers, used,
          asked, answer, given, got, handed, ended>>

\* ----------------------------------------------------------------- ledger

\* _.sortBy(value, "installed_rank"): ascending, ties in their given order.
SortByRank(group) ==
    Permuted(group, AscendingBy(1..Len(group),
                                [i \in 1..Len(group) |-> group[i].installed_rank]))

\* _private._getObjects on an existing table: the version keys in property
\* order and, per key, its rows sorted by installed_rank.
ObjectKeys(rws) == GroupKeys(rws)

ObjectsOf(rws, version) == SortByRank(GroupOf(rws, version))

\* _private._parseObject + insert: [ok |-> FALSE] when parseVersion throws.
\* The version of obj is parsed again from its text.
Inserted(rws, obj, version) ==
    IF ~version.ok THEN [ok |-> FALSE, rows |-> rws]
    ELSE [ok |-> TRUE, rows |-> Append(rws, [obj EXCEPT !.version = version.v])]

addObject(rws, obj) == Inserted(rws, obj, parseVersion(Render(obj.version)))

BaselineObject(version) ==
    [version |-> version, script |-> <<"b", "a", "s", "e", "l", "i", "n", "e">>,
     type |-> "SQL", installed_rank |-> 1, execution_time |-> "0",
     status |-> 0, reason |-> "none"]

\* The object _private._migration writes for a step that settled with `status`.
StepObject(migration, status) ==
    [version |-> migration.version, script |-> migration.script,
     type |-> migration.type,
     installed_rank |-> IF migration.rank = NoRank THEN 1 ELSE migration.rank,
     execution_time |-> "end - start",
     status |-> status,
     reason |-> IF status = 0 THEN "none" ELSE "error"]

\* --------------------------------------------------------------- revision

Picked(group) ==
    [i \in 1..Len(group) |->
        [script |-> group[i].script, status |-> group[i].status,
         reason |-> group[i].reason]]

HasSuccess(group) == \E i \in 1..Len(group) : group[i].status = 0

UnknownRevision == [known |-> FALSE, version |-> <<>>, migrations |-> <<>>]

\* The loop of revision() over _.keys(objects), from the accumulator acc.
\* One turn of the loop: `tmp` are the picked rows of `version`.
RevisionTurn(acc, version, tmp) ==
    IF HasSuccess(tmp)
    THEN [known |-> TRUE, version |-> version, migrations |-> tmp]
    ELSE [acc EXCEPT !.migrations = acc.migrations \o tmp]

RECURSIVE RevisionLoop(_, _, _)
RevisionLoop(keys, rws, acc) ==
    IF keys = <<>> THEN acc
    ELSE RevisionLoop(Tail(keys), rws,
             RevisionTurn(acc, Head(keys), Picked(ObjectsOf(rws, Head(keys)))))

\* revision(): version "Unknown" is [known |-> FALSE].
revision(exists, rws) ==
    IF ~exists THEN UnknownRevision
    ELSE RevisionLoop(ObjectKeys(rws), rws, UnknownRevision)

\* A schema without the table.
NoLedger == [exists |-> FALSE, rows |-> <<>>]

\* No direct call of parseVersion or compareVersion was made.
NotGiven == [fn |-> "none", v1 |-> Missing, v2 |-> Missing]

\* No direct call of _private._migration was made.
NotHanded == [called |-> FALSE, migration |-> NoMigration, loads |-> FALSE,
              succeeds |-> FALSE]

\* No direct call of discovery was made.
NotAsked == [isDirectory |-> FALSE, listing |-> <<>>, targetVersion |-> Missing,
             baseVersion |-> Missing, baseVersionObjects |-> <<>>]

\* ------------------------------------------------------------------ calls

\* No step is named: the call is in flight, resolved, or failed before a step.
NoBlame == [script |-> <<>>, version |-> <<>>]

NoCall == [name |-> "none", target |-> Missing, isDirectory |-> TRUE,
           listing |-> <<>>, exists |-> FALSE, known |-> FALSE,
           discovered |-> FALSE, readable |-> TRUE]

Init ==
    /\ dir \in Listings
    /\ tableExists \in BOOLEAN
    /\ rows = <<>>
    /\ op = "idle"
    /\ steps = <<>>
    /\ grp = 0
    /\ todo = {}
    /\ tx = {}
    /\ result = "none"
    /\ blame = NoBlame
    /\ ret = UnknownRevision
    /\ calls = 0
    /\ call = NoCall
    /\ prev = [name |-> "none", result |-> "none", target |-> Missing,
                isDirectory |-> TRUE, listing |-> <<>>]
    /\ rows0 = <<>>
    /\ started = <<>>
    /\ instances = {}
    /\ bound = "none"
    /\ ledgers = [s \in Schemas |-> NoLedger]
    /\ used = [instance |-> "none", schema |-> "none", name |-> "none"]
    /\ asked = NotAsked
    /\ answer = [ok |-> FALSE, groups |-> <<>>]
    /\ given = NotGiven
    /\ got = [ok |-> FALSE, v |-> Missing, sign |-> 0]
    /\ handed = NotHanded
    /\ ended = "none"

\* The CLI runs one operation per process and the engine is the ledger's only
\* writer: a call is made when no call and no step is in flight.
CanCall == op = "idle" /\ tx = {} /\ calls < MaxCalls

\* History kept at the start of every call; `listing` is what the call's
\* directory holds, `readable` tells whether the call's read of the ledger was
\* answered by the database.
CalledOn(name, target, isDirectory, listing, known, discovered, readable) ==
    /\ calls' = calls + 1
    /\ call' = [name |-> name, target |-> target, isDirectory |-> isDirectory,
                listing |-> listing, exists |-> tableExists, known |-> known,
                discovered |-> discovered, readable |-> readable]
    /\ prev' = [name |-> call.name, result |-> result, target |-> call.target,
                 isDirectory |-> call.isDirectory, listing |-> call.listing]
    /\ rows0' = rows
    /\ blame' = NoBlame

CalledWith(name, target, isDirectory, known, discovered, readable) ==
    CalledOn(name, target, isDirectory, dir, known, discovered, readable)

Called(name, target, isDirectory, known, discovered) ==
    CalledWith(name, target, isDirectory, known, discovered, TRUE)

\* Baseline without the _deleteObjects between creating the table and writing
\* the record.
BaselineKeeping(baseVersion) ==
    /\ CanCall
    /\ Called("baseline", baseVersion, TRUE, FALSE, FALSE)
    /\ \E version \in {parseVersion(baseVersion)} :
          IF ~version.ok
          THEN /\ result' = "InvalidVersion"
               /\ UNCHANGED <<tableExists, rows>>
          ELSE \E written \in {addObject(rows, BaselineObject(version.v))} :
                  /\ tableExists' = TRUE
                  /\ rows' = written.rows
                  /\ result' = IF written.ok THEN "ok" ELSE "InvalidVersion"
    /\ started' = <<>>
    /\ UNCHANGED <<process, direct, dir, op, steps, grp, todo, tx, ret>>

\* baseline(baseVersion, description)
Baseline(baseVersion) ==
    /\ CanCall
    /\ Called("baseline", baseVersion, TRUE, FALSE, FALSE)
    /\ \E version \in {parseVersion(baseVersion)} :
          IF ~version.ok
          THEN /\ result' = "InvalidVersion"
               /\ UNCHANGED <<tableExists, rows>>
          ELSE \E written \in {addObject(<<>>, BaselineObject(version.v))} :
                  /\ tableExists' = TRUE
                  /\ rows' = written.rows
                  /\ result' = IF written.ok THEN "ok" ELSE "InvalidVersion"
    /\ started' = <<>>
    /\ UNCHANGED <<process, direct, dir, op, steps, grp, todo, tx, ret>>

\* Clean with dropTable in place of dropTableIfExists: dropping a table that
\* does not exist fails.
CleanStrict ==
    /\ CanCall
    /\ Called("clean", Missing, TRUE, FALSE, FALSE)
    /\ tableExists' = FALSE
    /\ rows' = <<>>
    /\ result' = IF tableExists THEN "ok" ELSE "NoSuchTable"
    /\ started' = <<>>
    /\ UNCHANGED <<process, direct, dir, op, steps, grp, todo, tx, ret>>

\* clean()
Clean ==
    /\ CanCall
    /\ Called("clean", Missing, TRUE, FALSE, FALSE)
    /\ tableExists' = FALSE
    /\ rows' = <<>>
    /\ result' = "ok"
    /\ started' = <<>>
    /\ UNCHANGED <<process, direct, dir, op, steps, grp, todo, tx, ret>>

\* Revision without the .catch of schema.js:268-274: a failed read rejects.
RevisionUncaught(readable) ==
    /\ CanCall
    /\ CalledWith("revision", Missing, TRUE, FALSE, FALSE, readable)
    /\ IF tableExists /\ readable
       THEN ret' = revision(TRUE, rows) /\ result' = "ok"
       ELSE result' = "ReadFailed" /\ UNCHANGED ret
    /\ started' = <<>>
    /\ UNCHANGED <<process, direct, dir, tableExists, rows, op, steps, grp, todo, tx>>

\* revision(); `readable` is FALSE when the select fails for another reason
\* than a missing table (the database does not answer).
Revision(readable) ==
    /\ CanCall
    /\ CalledWith("revision", Missing, TRUE, FALSE, FALSE, readable)
    /\ ret' = revision(tableExists /\ readable, rows)
    /\ result' = "ok"
    /\ started' = <<>>
    /\ UNCHANGED <<process, direct, dir, tableExists, rows, op, steps, grp, todo, tx>>

Scripts(migrations) == [i \in 1..Len(migrations) |-> migrations[i].script]

\* The argument list of the call of Util.discovery in migrate: one object that
\* holds the directory, the target, the base version and the scripts of the
\* revision under their names.
MigrateArguments(directory, targetVersion, rev) ==
    <<[directory |-> directory, targetVersion |-> targetVersion,
       baseVersion |-> Render(rev.version),
       baseVersionObjects |-> Scripts(rev.migrations)]>>

\* The value a function's n-th parameter takes from an argument list:
\* undefined when the list is shorter.
Parameter(arguments, n) ==
    IF n <= Len(arguments) THEN arguments[n] ELSE Missing

\* What migrate finds before its first step: the revision, and the groups of
\* discovery when the current version is known.
Planned(found) == [known |-> TRUE, ok |-> found.ok, groups |-> found.groups]

\* PlanFrom without the test for "Unknown".
PlanFromUnchecked(rev, isDirectory, targetVersion) ==
    Planned(discovery(isDirectory, dir, targetVersion,
                      Render(rev.version), Scripts(rev.migrations)))

\* migrate's .then on the revision: reject on "Unknown", else call discovery
\* with directory, targetVersion, baseVersion and baseVersionObjects (the
\* fields schema.js names are the parameters of discovery in utils.js).
PlanFrom(rev, isDirectory, targetVersion) ==
    IF ~rev.known
    THEN [known |-> FALSE, ok |-> FALSE, groups |-> <<>>]
    ELSE Planned(discovery(isDirectory, dir, targetVersion,
                           Render(rev.version), Scripts(rev.migrations)))

MigratePlan(isDirectory, targetVersion) ==
    PlanFrom(revision(tableExists, rows), isDirectory, targetVersion)

\* migrate(directory, targetVersion), up to the start of Promise.mapSeries.
Migrate(isDirectory, targetVersion) ==
    /\ CanCall
    /\ \E plan \in {MigratePlan(isDirectory, targetVersion)} :
          /\ Called("migrate", targetVersion, isDirectory, plan.known, plan.known)
          /\ IF ~plan.known
             THEN /\ result' = "NoBaseline"
                  /\ UNCHANGED <<op, steps, grp, todo>>
             ELSE IF ~plan.ok
             THEN /\ result' = "DiscoveryFailed"
                  /\ UNCHANGED <<op, steps, grp, todo>>
             ELSE IF plan.groups = <<>>
             THEN /\ result' = "ok"
                  /\ UNCHANGED <<op, steps, grp, todo>>
             ELSE /\ result' = "none"
                  /\ op' = "migrate"
                  /\ steps' = plan.groups
                  /\ grp' = 1
                  /\ todo' = 1..Len(plan.groups[1])
    /\ started' = <<>>
    /\ UNCHANGED <<process, direct, dir, tableExists, rows, tx, ret>>

\* The concurrency option of Promise.map in migrate.
Concurrency == 1

InFlight(owner) == {s \in tx : s.owner = owner}

\* Promise.map(step, mapper, {concurrency: 1}) may call the mapper.
MapperMayRun == Cardinality(InFlight("migrate")) < Concurrency

\* The elements Promise.map may hand to the mapper next: the order in which
\* it calls the mapper on the elements is not specified by the library.
NextOf(pending) == pending

\* One call of the mapper in migrate: the rank is assigned and
\* _private._migration opens the step's transaction.
MigrateStep ==
    /\ op = "migrate"
    /\ MapperMayRun
    /\ \E idx \in NextOf(todo) :
          \E migration \in {[steps[grp][idx] EXCEPT !.rank = idx]} :
             /\ tx' = tx \cup {[owner |-> "migrate", id |-> idx,
                                migration |-> migration, phase |-> "running"]}
             /\ todo' = todo \ {idx}
             /\ started' = Append(started, [group |-> grp, idx |-> idx,
                                            script |-> migration.script,
                                            version |-> migration.version,
                                            outcome |-> "running"])
    /\ UNCHANGED <<process, direct, dir, tableExists, rows, op, steps, grp, result, blame, ret,
                   calls, call, prev, rows0>>

\* The transaction of a step settles: the script ran and the transaction
\* committed (status 0), or something failed and it rolled back (status 1).
Execute(s, status) ==
    /\ s \in tx
    /\ s.phase = "running"
    /\ tx' = (tx \ {s}) \cup
             {[s EXCEPT !.phase = IF status = 0 THEN "committed" ELSE "rolledback"]}
    /\ started' = [k \in 1..Len(started) |->
                      IF started[k].idx = s.id /\ started[k].outcome = "running"
                      THEN [started[k] EXCEPT !.outcome =
                               IF status = 0 THEN "succeeded" ELSE "failed"]
                      ELSE started[k]]
    /\ UNCHANGED <<process, direct, dir, tableExists, rows, op, steps, grp, todo, result, blame,
                   ret, calls, call, prev, rows0>>

StatusOf(s) == IF s.phase = "committed" THEN 0 ELSE 1

\* Recorded as a replacement keyed by the version alone: the rows of the
\* step's version are deleted before its record is inserted.
RecordedOverVersion(s) ==
    addObject(SelectIn(rows, {rows[i] : i \in {j \in 1..Len(rows) :
                                 rows[j].version # s.migration.version}}),
              StepObject(s.migration, StatusOf(s)))

\* The ledger after the .finally of a settled step.
Recorded(s) == addObject(rows, StepObject(s.migration, StatusOf(s)))

\* The promise of the step rejects: the step failed, or its record could not
\* be written.
Rejects(s, written) == StatusOf(s) = 1 \/ ~written.ok

\* The error of a rejected step: "Migration (version/script) failed.", or,
\* when the record could not be written, the error of parseVersion, which
\* carries the version only.
ErrorOf(s, written) ==
    IF written.ok
    THEN [script |-> s.migration.script, version |-> s.migration.version]
    ELSE [script |-> Missing, version |-> s.migration.version]

\* Promise.map / Promise.mapSeries of migrate after a step's promise settled:
\* a rejection rejects the call and no queued mapper runs; otherwise the group
\* goes on, the next group starts, or the call resolves.
MigrateGoesOn(rejects, error) ==
    IF rejects
    THEN /\ op' = "idle"
         /\ result' = "StepFailed"
         /\ blame' = error
         /\ steps' = <<>>
         /\ grp' = 0
         /\ todo' = {}
    ELSE IF todo # {}
    THEN UNCHANGED <<op, result, blame, steps, grp, todo>>
    ELSE IF grp < Len(steps)
    THEN /\ grp' = grp + 1
         /\ todo' = 1..Len(steps[grp + 1])
         /\ UNCHANGED <<op, result, blame, steps>>
    ELSE /\ op' = "idle"
         /\ result' = "ok"
         /\ steps' = <<>>
         /\ grp' = 0
         /\ todo' = {}
         /\ UNCHANGED blame

\* Promise.map of repair after a step's promise settled: the first rejection
\* rejects the call, the last fulfilment resolves it.
RepairGoesOn(rejects, error, left) ==
    /\ IF op = "repair" /\ rejects
       THEN op' = "idle" /\ result' = "StepFailed" /\ blame' = error
       ELSE IF op = "repair" /\ left = {}
       THEN op' = "idle" /\ result' = "ok" /\ UNCHANGED blame
       ELSE UNCHANGED <<op, result, blame>>
    /\ UNCHANGED <<steps, grp, todo>>

\* A rejected step takes the steps still in flight down with it.
FinallyAbandoning(s) ==
    /\ s \in tx
    /\ s.phase # "running"
    /\ \E written \in {Recorded(s)} :
          /\ rows' = written.rows
          /\ tx' = IF Rejects(s, written) THEN {} ELSE tx \ {s}
          /\ IF s.owner = "migrate"
             THEN MigrateGoesOn(Rejects(s, written), ErrorOf(s, written))
             ELSE RepairGoesOn(Rejects(s, written), ErrorOf(s, written), tx \ {s})
    /\ UNCHANGED <<process, direct, dir, tableExists, ret, calls, call, prev, rows0, started>>

\* The .finally of _private._migration writes the record; then the step's
\* promise settles and the call that mapped it goes on, resolves or rejects.
Finally(s) ==
    /\ s \in tx
    /\ s.phase # "running"
    /\ tx' = tx \ {s}
    /\ \E written \in {Recorded(s)} :
          /\ rows' = written.rows
          /\ IF s.owner = "migrate"
             THEN MigrateGoesOn(Rejects(s, written), ErrorOf(s, written))
             ELSE RepairGoesOn(Rejects(s, written), ErrorOf(s, written), tx \ {s})
    /\ UNCHANGED <<process, direct, dir, tableExists, ret, calls, call, prev, rows0, started>>

\* The rows repair tries again: _.filter(_.flatten(_.values(objects)), status > 0).
ValuesOf(rws, keys) == Flatten([k \in 1..Len(keys) |-> ObjectsOf(rws, keys[k])])

Failed(all) ==
    SelectIn(all, {all[i] : i \in {j \in 1..Len(all) : all[j].status > 0}})

\* Only the first failed row is tried again.
FixUsFirst(rws) ==
    IF Failed(ValuesOf(rws, ObjectKeys(rws))) = <<>> THEN <<>>
    ELSE <<Head(Failed(ValuesOf(rws, ObjectKeys(rws))))>>

FixUs(rws) == Failed(ValuesOf(rws, ObjectKeys(rws)))

\* _.find(scripts, s => s.script == fixIt.script): 0 when there is none.
FindScript(scripts, name) ==
    IF \A i \in 1..Len(scripts) : scripts[i].script # name THEN 0
    ELSE FirstIn({i \in 1..Len(scripts) : scripts[i].script = name})

\* The steps repair starts: one per failed row whose script is found.
RepairSteps(scripts, fixUs) ==
    {[owner |-> "repair", id |-> i,
      migration |-> scripts[FindScript(scripts, fixUs[i].script)],
      phase |-> "running"] :
        i \in {j \in 1..Len(fixUs) : FindScript(scripts, fixUs[j].script) # 0}}

\* The same steps as history, in the order of fixUs.
RECURSIVE StartedBy(_, _)
StartedBy(scripts, fixUs) ==
    IF fixUs = <<>> THEN <<>>
    ELSE StartedBy(scripts, SubSeq(fixUs, 1, Len(fixUs) - 1)) \o
         (IF FindScript(scripts, fixUs[Len(fixUs)].script) = 0 THEN <<>>
          ELSE <<[group |-> 0, idx |-> Len(fixUs),
                  script |-> fixUs[Len(fixUs)].script,
                  version |-> scripts[FindScript(scripts,
                                  fixUs[Len(fixUs)].script)].version,
                  outcome |-> "running"]>>)

\* The directories repair is called on: the data directory or the other one.
RepairListings == {dir, Elsewhere}

\* repair(directory), on a directory with the given listing: Promise.map
\* without a concurrency limit calls _private._migration for every failed row
\* whose script is found.
Repair(isDirectory, listing) ==
    /\ CanCall
    /\ CalledOn("repair", Missing, isDirectory, listing, FALSE, tableExists, TRUE)
    /\ IF ~tableExists
       THEN /\ result' = "LedgerUnavailable"
            /\ started' = <<>>
            /\ UNCHANGED <<op, tx>>
       ELSE \E found \in {discovery(isDirectory, listing, Missing, Missing, <<>>)} :
               IF ~found.ok
               THEN /\ result' = "DiscoveryFailed"
                    /\ started' = <<>>
                    /\ UNCHANGED <<op, tx>>
               ELSE \E begun \in {RepairSteps(Flatten(found.groups), FixUs(rows))} :
                    /\ tx' = begun
                    /\ started' = StartedBy(Flatten(found.groups), FixUs(rows))
                    /\ IF begun = {}
                       THEN result' = "ok" /\ op' = "idle"
                       ELSE result' = "none" /\ op' = "repair"
    /\ UNCHANGED <<process, direct, dir, tableExists, rows, steps, grp, todo, ret>>

Next ==
    \/ \E v \in BaselineInputs : Baseline(v)
    \/ Clean
    \/ \E readable \in BOOLEAN : Revision(readable)
    \/ \E d \in BOOLEAN, t \in TargetInputs : Migrate(d, t)
    \/ MigrateStep
    \/ \E s \in tx, status \in {0, 1} : Execute(s, status)
    \/ \E s \in tx : Finally(s)
    \/ \E d \in BOOLEAN, listing \in RepairListings : Repair(d, listing)

Spec == Init /\ [][Next]_vars

\* ------------------------------------------------- several schema managers

\* The engine variables of the single-instance model, left alone here.
engine == <<dir, tableExists, rows, op, steps, grp, todo, tx, result, blame,
            ret, calls, call, prev, rows0, started>>

\* The module keeps one store `_private` for all instances (schema.js:13):
\* new SchemaManager(schema, ...) overwrites _private._schema and the
\* transport bound to it.
Construct(schema) ==
    /\ instances' = instances \cup {schema}
    /\ bound' = schema
    /\ UNCHANGED <<ledgers, used, engine, direct>>

\* Every query is built withSchema(_private._schema): a call on any instance
\* works on the ledger of the schema the store names at that time.
SchemaUsed(instance) == bound

UsedBy(instance, name) ==
    used' = [instance |-> instance, schema |-> SchemaUsed(instance),
             name |-> name]

\* The ledger of the schema in use after baseline(baseVersion).
BaselinedFrom(ledger, version) ==
    IF ~version.ok THEN ledger
    ELSE [exists |-> TRUE,
          rows |-> addObject(<<>>, BaselineObject(version.v)).rows]

BaselineOn(instance, baseVersion) ==
    /\ instance \in instances
    /\ UsedBy(instance, "baseline")
    /\ ledgers' = [ledgers EXCEPT ![SchemaUsed(instance)] =
                      BaselinedFrom(@, parseVersion(baseVersion))]
    /\ UNCHANGED <<instances, bound, engine, direct>>

CleanOn(instance) ==
    /\ instance \in instances
    /\ UsedBy(instance, "clean")
    /\ ledgers' = [ledgers EXCEPT ![SchemaUsed(instance)] = NoLedger]
    /\ UNCHANGED <<instances, bound, engine, direct>>

RevisionOn(instance) ==
    /\ instance \in instances
    /\ UsedBy(instance, "revision")
    /\ UNCHANGED <<instances, bound, ledgers, engine, direct>>

NextShared ==
    \/ \E schema \in Schemas : Construct(schema)
    \/ \E i \in Schemas, v \in BaselineInputs : BaselineOn(i, v)
    \/ \E i \in Schemas : CleanOn(i)
    \/ \E i \in Schemas : RevisionOn(i)

SpecShared == Init /\ [][NextShared]_vars

\* ------------------------------------------------ discovery called directly

\* Util.discovery(directory, targetVersion, baseVersion, baseVersionObjects)
\* called on a directory with the given listing. The function keeps nothing
\* between two calls, so one call per behaviour shows every result.
Discovering(isDirectory, listing, targetVersion, baseVersion, baseVersionObjects) ==
    /\ asked = NotAsked
    /\ asked' = [isDirectory |-> isDirectory, listing |-> listing,
                 targetVersion |-> targetVersion, baseVersion |-> baseVersion,
                 baseVersionObjects |-> baseVersionObjects]
    /\ answer' = discovery(isDirectory, listing, targetVersion, baseVersion,
                           baseVersionObjects)
    /\ UNCHANGED <<engine, process, given, got, handed, ended>>

NextDiscovery ==
    \E isDirectory \in BOOLEAN, listing \in DirectListings,
       targetVersion \in DirectTargets, baseVersion \in DirectBases,
       baseVersionObjects \in ExclusionLists :
          Discovering(isDirectory, listing, targetVersion, baseVersion,
                      baseVersionObjects)

SpecDiscovery == Init /\ [][NextDiscovery]_vars

\* ------------------------------------------- version model called directly

\* parseVersion(version) called by itself; one call per behaviour shows every
\* result.
Parsing(version) ==
    /\ given = NotGiven
    /\ given' = [fn |-> "parseVersion", v1 |-> version, v2 |-> Missing]
    /\ got' = [ok |-> parseVersion(version).ok, v |-> parseVersion(version).v,
               sign |-> 0]
    /\ UNCHANGED <<engine, process, asked, answer, handed, ended>>

\* compareVersion(v1, v2) called by itself on parsed versions.
Comparing(v1, v2) ==
    /\ given = NotGiven
    /\ given' = [fn |-> "compareVersion", v1 |-> v1, v2 |-> v2]
    /\ got' = [ok |-> TRUE, v |-> Missing, sign |-> compareVersion(v1, v2)]
    /\ UNCHANGED <<engine, process, asked, answer, handed, ended>>

NextVersion ==
    \/ \E version \in VersionTexts : Parsing(version)
    \/ \E v1 \in ParsedVersions, v2 \in ParsedVersions : Comparing(v1, v2)

SpecVersion == Init /\ [][NextVersion]_vars

\* ---------------------------------------------------- step called directly

\* An unknown type is taken for a script that does nothing.
ExecutionLenient(migration, loads, succeeds) ==
    IF migration.type = "SQL" THEN succeeds
    ELSE IF migration.type = "Node.js" THEN loads /\ succeeds
    ELSE TRUE

\* The callback of the transaction in _private._migration: TRUE when its
\* promise fulfils and the transaction commits.  `loads` tells whether require
\* gives a function, `succeeds` whether the query or the function succeeds.
Execution(migration, loads, succeeds) ==
    IF migration.type = "SQL" THEN succeeds
    ELSE IF migration.type = "Node.js" THEN loads /\ succeeds
    ELSE FALSE

\* The record the .finally writes after the transaction.
Written(migration, committed) ==
    IF tableExists
    THEN addObject(rows, StepObject(migration, IF committed THEN 0 ELSE 1))
    ELSE [ok |-> FALSE, rows |-> rows]

\* _private._migration(migration) called by itself: it throws before the
\* transaction, or runs the transaction, writes the record and settles.
Migration(migration, loads, succeeds) ==
    /\ handed = NotHanded
    /\ handed' = [called |-> TRUE, migration |-> migration, loads |-> loads,
                  succeeds |-> succeeds]
    /\ IF ~migration.given \/ ~migration.hasPath
       THEN ended' = "thrown" /\ UNCHANGED rows
       ELSE /\ rows' = Written(migration, Execution(migration, loads, succeeds)).rows
            /\ ended' = IF /\ Execution(migration, loads, succeeds)
                           /\ Written(migration, TRUE).ok
                        THEN "resolved" ELSE "rejected"
    /\ UNCHANGED <<dir, tableExists, op, steps, grp, todo, tx, result, blame,
                   ret, calls, call, prev, rows0, started>>
    /\ UNCHANGED <<process, asked, answer, given, got>>

NextStep ==
    \E migration \in Descriptors, loads \in BOOLEAN, succeeds \in BOOLEAN :
        Migration(migration, loads, succeeds)

SpecStep == Init /\ [][NextStep]_vars

\* ----------------------------------------------------------------- claims

\* The last call has settled and no step of it is left in flight.
Settled == op = "idle" /\ tx = {}

\* What revision() reported when the last call was made.
RevisionAtCall == revision(call.exists, rows0)

\* The ledger is as it was when the last call was made.
LedgerUnchanged == rows = rows0 /\ tableExists = call.exists

\* The positions of the rows written since the last call was made.
NewRows == (Len(rows0) + 1)..Len(rows)

\* The last call repeats the call before it: migrate on the same directory
\* with the same target.
SameMigrateAgain ==
    /\ call.name = "migrate" /\ prev.name = "migrate"
    /\ call.target = prev.target
    /\ call.isDirectory /\ prev.isDirectory

\* C1: migrate called while revision() reports "Unknown" fails with NoBaseline,
\* runs no discovery and no migration step, and leaves the ledger unchanged.
C1_NoBaseline ==
    (call.name = "migrate" /\ ~RevisionAtCall.known) =>
        /\ result = "NoBaseline"
        /\ op = "idle"
        /\ ~call.discovered
        /\ started = <<>>
        /\ tx = {}
        /\ LedgerUnchanged

C1_Witness ==
    /\ call.name = "migrate"
    /\ ~RevisionAtCall.known
    /\ result = "NoBaseline"
    /\ prev.name = "clean"

CountIn(seq, script, version) ==
    Cardinality({i \in 1..Len(seq) :
                    seq[i].script = script /\ seq[i].version = version})

CountInFlight(script, version) ==
    Cardinality({s \in tx : s.migration.script = script
                            /\ s.migration.version = version})

SuccessVersions(rws) ==
    {rws[i].version : i \in {j \in 1..Len(rws) : rws[j].status = 0}}

C10_HighestSuccess ==
    IF ~tableExists \/ SuccessVersions(rows) = {}
    THEN ~revision(tableExists, rows).known
    ELSE /\ revision(tableExists, rows).known
         /\ revision(tableExists, rows).version \in SuccessVersions(rows)
         /\ \A w \in SuccessVersions(rows) :
               compareVersion(w, revision(tableExists, rows).version) # 1
         /\ \A i \in 1..Len(rows) :
               rows[i].version = revision(tableExists, rows).version =>
                  \E m \in 1..Len(revision(tableExists, rows).migrations) :
                     /\ revision(tableExists, rows).migrations[m].script
                           = rows[i].script
                     /\ revision(tableExists, rows).migrations[m].status
                           = rows[i].status

\* C11: for every ledger state, every failure record of a version that has no
\* success record appears in the migrations revision() returns, whether that
\* version is lower or higher than the reported current version.
C11_FailuresVisible ==
    \A i \in 1..Len(rows) :
        (rows[i].status # 0 /\ rows[i].version \notin SuccessVersions(rows)) =>
            \E m \in 1..Len(revision(tableExists, rows).migrations) :
                /\ revision(tableExists, rows).migrations[m].script
                      = rows[i].script
                /\ revision(tableExists, rows).migrations[m].status
                      = rows[i].status

\* C12: revision() never fails and never modifies the ledger; when the table
\* is missing, the read fails or the ledger is empty it resolves with version
\* "Unknown" and migrations [], and otherwise with what the ledger gives.
C12_RevisionNeverFails ==
    call.name = "revision" =>
        /\ result = "ok"
        /\ LedgerUnchanged
        /\ (~tableExists \/ ~call.readable \/ rows = <<>>) =>
              (~ret.known /\ ret.migrations = <<>>)
        /\ (tableExists /\ call.readable) => ret = revision(TRUE, rows)

\* revision() was called on a ledger with records while the database did not
\* answer the read.
C12_Witness ==
    /\ call.name = "revision"
    /\ ~call.readable
    /\ rows # <<>>
    /\ ~ret.known

\* C13: after a successful baseline(version), whatever the ledger held before,
\* the ledger holds exactly one record, with version parse(version), script
\* "baseline", kind SQL, installed_rank 1, execution_time 0 and status 0, and
\* revision() reports parse(version) as the current version.
C13_BaselineReseeds ==
    (call.name = "baseline" /\ result = "ok") =>
        /\ tableExists
        /\ parseVersion(call.target).ok
        /\ rows = <<[version |-> parseVersion(call.target).v,
                     script |-> <<"b", "a", "s", "e", "l", "i", "n", "e">>,
                     type |-> "SQL", installed_rank |-> 1,
                     execution_time |-> "0", status |-> 0, reason |-> "none"]>>
        /\ revision(tableExists, rows).known
        /\ revision(tableExists, rows).version = parseVersion(call.target).v

\* baseline succeeded on a ledger that held a success and a failure of a
\* migration besides an earlier baseline.
C13_Witness ==
    /\ call.name = "baseline"
    /\ result = "ok"
    /\ \E i, j \in 2..Len(rows0) : rows0[i].status = 0 /\ rows0[j].status = 1

\* The Version Model's well-formed version texts: after one optional leading
\* v/V and with underscores read as dots, one or more non-empty groups of
\* digits separated by single dots.
DigitGroups(parts) ==
    \A i \in 1..Len(parts) :
        parts[i] # <<>> /\ \A k \in 1..Len(parts[i]) : IsDigit(parts[i][k])

WellFormedVersion(text) ==
    /\ text # Missing
    /\ \E body \in {IF toLowerCase(text[1]) = "v" THEN Tail(text) ELSE text} :
          body # <<>> /\ DigitGroups(SplitDots(Dotted(body)))

\* C14: baseline(version) with a version the Version Model rejects fails with
\* InvalidVersion and neither creates, clears nor writes the ledger.
C14_BaselineRejects ==
    (call.name = "baseline" /\ ~WellFormedVersion(call.target)) =>
        /\ result = "InvalidVersion"
        /\ LedgerUnchanged

\* C15: clean() succeeds and leaves no ledger, also when the ledger was
\* already absent; while the ledger is absent (after clean, until baseline)
\* revision() resolves with "Unknown" and [] and migrate fails with NoBaseline
\* without starting a step.
C15_CleanThenUnknown ==
    /\ call.name = "clean" => (result = "ok" /\ ~tableExists /\ rows = <<>>)
    /\ (~tableExists /\ call.name = "revision") =>
          (result = "ok" /\ ret = UnknownRevision)
    /\ (~tableExists /\ call.name = "migrate") =>
          (result = "NoBaseline" /\ op = "idle" /\ started = <<>>)
    /\ ~tableExists => (rows = <<>> /\ tx = {})

\* clean was called twice in a row after a ledger with records had been
\* dropped by the first call.
C15_Witness ==
    /\ call.name = "clean"
    /\ prev.name = "clean"
    /\ result = "ok"
    /\ prev.result = "ok"
    /\ ~call.exists

\* C16: every operation invoked on the engine instance constructed for a
\* schema reads and writes only that schema's ledger, also after an instance
\* for another schema has been constructed in the same process.
C16_SchemaIsolation ==
    used.instance # "none" => used.schema = used.instance

\* C17: no step of migrate, repair or revision removes a (script, version)
\* entry from the ledger or drops the table: every entry present before the
\* step is present after it.
C17_NeverRemoves ==
    [][call'.name \in {"migrate", "repair", "revision"} =>
          /\ tableExists' = tableExists
          /\ \A i \in 1..Len(rows) : \E j \in 1..Len(rows') :
                /\ rows'[j].script = rows[i].script
                /\ rows'[j].version = rows[i].version]_vars

\* repair has written a record for a version at which the ledger already held
\* the record of another script.
C17_Witness ==
    /\ call.name = "repair"
    /\ Len(rows) > Len(rows0)
    /\ \E i \in 1..Len(rows0) :
          /\ rows0[i].version = rows[Len(rows)].version
          /\ rows0[i].script # rows[Len(rows)].script

\* The descriptors of all groups discovery returned.
Found == Flatten(answer.groups)

\* C18: discovery with a targetVersion returns only scripts whose parsed
\* version equals targetVersion: scripts with a lower or a higher version are
\* excluded.
C18_TargetOnly ==
    (answer.ok /\ asked.targetVersion # Missing) =>
        \A k \in 1..Len(Found) :
            compareVersion(Found[k].version,
                           parseVersion(asked.targetVersion).v) = 0

\* The last call is a migrate with a target version.
MigrateToTarget == call.name = "migrate" /\ call.target # Missing

\* The version is greater than the target of the last call.
BeyondTarget(version) == compareVersion(version, parseVersion(call.target).v) = 1

\* C19: a migrate with a target version neither executes nor records a script
\* whose version compares greater than the target.
C19_NothingBeyondTarget ==
    MigrateToTarget =>
        /\ \A k \in 1..Len(started) : ~BeyondTarget(started[k].version)
        /\ \A i \in NewRows : ~BeyondTarget(rows[i].version)

\* A migrate to 1.1 on a directory that holds a script of version 2 has run
\* and recorded a script and is over.
C19_Witness ==
    /\ MigrateToTarget /\ Settled
    /\ \E j \in 1..Len(dir) :
          /\ parseFilename(dir[j]).ok
          /\ BeyondTarget(parseFilename(dir[j]).version)
    /\ Len(started) > 0
    /\ NewRows # {}

\* The last direct call of discovery had a base version and no target version
\* and returned.
FromBaseOnly ==
    answer.ok /\ asked.baseVersion # Missing /\ asked.targetVersion = Missing

\* The script is among the descriptors discovery returned.
Returned(script) == \E k \in 1..Len(Found) : Found[k].script = script

\* How the version of the listed script compares to the base version asked.
AgainstBase(script) ==
    compareVersion(parseFilename(script).version, parseVersion(asked.baseVersion).v)

IncludedAsked ==
    Discovered(asked.listing, ParsedIfGiven(asked.targetVersion).v,
               ParsedIfGiven(asked.baseVersion).v, asked.baseVersionObjects)

\* The position of the script in the listing of the last direct call.
ListedAt(script) == FirstIn({i \in 1..Len(asked.listing) : asked.listing[i] = script})

\* The groups come in ascending order of their versions.
GroupsAscending ==
    \A i, j \in 1..Len(answer.groups) :
        i < j => compareVersion(answer.groups[i][1].version,
                                answer.groups[j][1].version) # 1

\* Every included descriptor is in exactly one place of exactly one group, and
\* nothing else is in a group.
GroupsPartition ==
    /\ Len(Found) = Len(IncludedAsked)
    /\ \A k \in 1..Len(IncludedAsked) :
          \E p \in 1..Len(Found) : Found[p] = IncludedAsked[k]
    /\ \A g \in 1..Len(answer.groups) : \A p \in 1..Len(answer.groups[g]) :
          answer.groups[g][p].version = answer.groups[g][1].version

\* Inside a group the descriptors keep the order of the listing.
GroupsInListingOrder ==
    \A g \in 1..Len(answer.groups) : \A p, q \in 1..Len(answer.groups[g]) :
        p < q => ListedAt(answer.groups[g][p].script)
                    < ListedAt(answer.groups[g][q].script)

\* C21: discovery returns the included descriptors grouped by version, the
\* groups in ascending order of compareVersion, every included descriptor in
\* exactly one group, and the listing order kept inside each group.
C21_GroupedAscending ==
    answer.ok => GroupsAscending /\ GroupsPartition /\ GroupsInListingOrder

\* The version token of a file name as the Version Model reads it: what comes
\* before the first "__", or the name without its extension when there is no
\* "__".
VersionToken(basename) ==
    IF IndexOfSeparator(basename) = 0
    THEN SubSeq(basename, 1, Len(basename) - Len(extname(basename)))
    ELSE SubSeq(basename, 1, IndexOfSeparator(basename) - 1)

\* An entry with a recognized extension and a well-formed version token.
ValidEntry(basename) ==
    /\ getFileExtension(basename) \in {ExtSql, ExtJs}
    /\ WellFormedVersion(VersionToken(basename))

\* The last direct call of discovery had neither a target nor a base version.
Unfiltered == asked.targetVersion = Missing /\ asked.baseVersion = Missing

\* C22: discovery fails only when the path is not a readable directory; an
\* entry with an unrecognized extension or an unparsable version is skipped and
\* every valid entry is returned.
C22_SkipsBadEntries ==
    (asked # NotAsked /\ Unfiltered) =>
        /\ answer.ok <=> asked.isDirectory
        /\ answer.ok =>
              \A j \in 1..Len(asked.listing) :
                  Returned(asked.listing[j]) <=> ValidEntry(asked.listing[j])

\* The last direct call is parseVersion.
Parsed == given.fn = "parseVersion"

\* C23: parseVersion rejects every input that, after one optional leading v/V
\* and with underscores read as dots, is not one or more non-empty groups of
\* digits separated by single dots, and never returns a version with an empty
\* or non-numeric component.
C23_RejectsIllFormed ==
    Parsed =>
        /\ got.ok <=> WellFormedVersion(given.v1)
        /\ got.ok => \A c \in 1..Len(got.v) : got.v[c] # NaN

\* The text parseVersion returned.
ParsedText == Render(got.v)

\* The examples of the Version Model: "1" -> "1", "001" -> "1", "5_2" -> "5.2",
\* "V5.2" -> "5.2".
ParseExamples ==
    /\ given.v1 = <<"1">> => ParsedText = <<"1">>
    /\ given.v1 = <<"0", "0", "1">> => ParsedText = <<"1">>
    /\ given.v1 = <<"5", "_", "2">> => ParsedText = <<"5", ".", "2">>
    /\ given.v1 = <<"V", "5", ".", "2">> => ParsedText = <<"5", ".", "2">>

\* The text returned has no leading v, no underscore and no group with a
\* leading zero.
Normalised(text) ==
    /\ text # <<>>
    /\ toLowerCase(text[1]) # "v"
    /\ \A i \in 1..Len(text) : text[i] # "_"
    /\ \A g \in 1..Len(SplitDots(text)) :
          Len(SplitDots(text)[g]) > 1 => SplitDots(text)[g][1] # "0"

\* C24: for every accepted input parseVersion strips one leading v/V, replaces
\* underscores by dots and removes the leading zeros of each group, and parsing
\* its result again gives the same result.
C24_ParseIdempotent ==
    (Parsed /\ got.ok) =>
        /\ ParseExamples
        /\ Normalised(ParsedText)
        /\ parseVersion(ParsedText) = [ok |-> TRUE, v |-> got.v]

\* The last direct call is compareVersion.
Compared == given.fn = "compareVersion"

\* A version padded with zero groups to the length n.
ZeroPadded(v, n) == [i \in 1..n |-> IF i <= Len(v) THEN v[i] ELSE 0]

\* The lexicographic order of two tuples of equal length: -1, 0 or 1.
RECURSIVE Lexicographic(_, _)
Lexicographic(a, b) ==
    IF a = <<>> THEN 0
    ELSE IF Head(a) < Head(b) THEN -1
    ELSE IF Head(a) > Head(b) THEN 1
    ELSE Lexicographic(Tail(a), Tail(b))

\* The order of the Version Model: a missing version below every present one,
\* two present ones by their padded tuples.
VersionOrder(a, b) ==
    IF a = Missing THEN (IF b = Missing THEN 0 ELSE -1)
    ELSE IF b = Missing THEN 1
    ELSE Lexicographic(ZeroPadded(a, Longer(a, b)), ZeroPadded(b, Longer(a, b)))

\* The examples: compare("1.2","1.2.0") = 0, compare("1.9","1.10") = -1,
\* compare("2","1.99") = 1.
CompareExamples ==
    /\ (given.v1 = <<1, 2>> /\ given.v2 = <<1, 2, 0>>) => got.sign = 0
    /\ (given.v1 = <<1, 9>> /\ given.v2 = <<1, 10>>) => got.sign = -1
    /\ (given.v1 = <<2>> /\ given.v2 = <<1, 99>>) => got.sign = 1

\* C25: compareVersion pads the shorter version with zero groups and compares
\* group by group; over the parsed versions it is antisymmetric, gives 0 exactly
\* when the padded tuples are equal, and is transitive; a missing version is
\* below every present one and two missing versions are equal.
C25_TotalOrder ==
    Compared =>
        /\ CompareExamples
        /\ got.sign = -compareVersion(given.v2, given.v1)
        /\ got.sign = VersionOrder(given.v1, given.v2)
        /\ \A v3 \in ParsedVersions :
              (got.sign # 1 /\ compareVersion(given.v2, v3) # 1)
                  => compareVersion(given.v1, v3) # 1

\* C26: a file with a recognized extension and no "__" in its name is parsed
\* with its basename minus the extension as the version token, and an
\* unfiltered discovery returns it as a migration of that version.
C26_NoSeparator ==
    (Unfiltered /\ answer.ok) =>
        \A j \in 1..Len(asked.listing) :
            (/\ IndexOfSeparator(asked.listing[j]) = 0
             /\ ValidEntry(asked.listing[j]))
                => \E k \in 1..Len(Found) :
                      /\ Found[k].script = asked.listing[j]
                      /\ Found[k].version
                            = parseVersion(VersionToken(asked.listing[j])).v

\* The last call is a repair that read the ledger and listed its directory.
RepairRan == call.name = "repair" /\ call.exists /\ call.isDirectory

\* The script is a parsable entry of the directory the last call was made on.
InDirectory(script) ==
    /\ parseFilename(script).ok
    /\ \E j \in 1..Len(call.listing) : call.listing[j] = script

\* The rows of the ledger at the call that have a nonzero status.
FailedAtCall == {i \in 1..Len(rows0) : rows0[i].status # 0}

\* The steps the last call started for the script.
StartedFor(script) == {k \in 1..Len(started) : started[k].script = script}

EndedFor(script, outcome) ==
    {k \in StartedFor(script) : started[k].outcome = outcome}

\* The rows written since the call for the script with the status.
WrittenFor(script, status) ==
    {i \in NewRows : rows[i].script = script /\ rows[i].status = status}

RepairAgain ==
    /\ RepairRan
    /\ prev.name = "repair" /\ prev.result = "ok"
    /\ prev.isDirectory /\ prev.listing = call.listing

Swapped(rws, i, j) ==
    [k \in 1..Len(rws) |-> IF k = i THEN rws[j] ELSE IF k = j THEN rws[i] ELSE rws[k]]

\* Two results of revision() with the same version and the same set of
\* migrations.
SameRevision(r1, r2) ==
    /\ r1.known = r2.known
    /\ r1.version = r2.version
    /\ {r1.migrations[k] : k \in 1..Len(r1.migrations)}
          = {r2.migrations[k] : k \in 1..Len(r2.migrations)}

\* C30: the result of revision() depends on the set of records of the ledger
\* only: the same records in another order give the same version and the same
\* set of migrations.
C30_RevisionDeterministic ==
    tableExists =>
        \A i, j \in 1..Len(rows) :
            SameRevision(revision(TRUE, rows), revision(TRUE, Swapped(rows, i, j)))

\* The promise of the last migrate or repair has settled.
CallSettled == call.name \in {"migrate", "repair"} /\ op = "idle"

RecordedWithRank(k) ==
    \E i \in NewRows :
        /\ rows[i].script = started[k].script
        /\ rows[i].version = started[k].version
        /\ rows[i].installed_rank = started[k].idx

StepOver(k) ==
    /\ started[k].outcome # "running"
    /\ \A s \in tx : s.id # started[k].idx

\* The last call has written a record for the step started k-th with the
\* status and the reason.
RecordedAs(k, status, reason) ==
    \E i \in NewRows :
        /\ rows[i].script = started[k].script
        /\ rows[i].version = started[k].version
        /\ rows[i].status = status
        /\ rows[i].reason = reason

Malformed ==
    /\ handed.called
    /\ \/ ~handed.migration.given
       \/ ~handed.migration.hasPath
       \/ handed.migration.type \notin {"SQL", "Node.js"}

\* C34: a step invoked with a malformed descriptor ends in an error given to
\* the caller: it never resolves and never does nothing.
C34_MalformedFails ==
    Malformed => ended \in {"thrown", "rejected"}

\* A step with a path and an unknown type was called with a ledger in place,
\* and its promise rejected.
C34_Witness ==
    /\ Malformed
    /\ handed.migration.given /\ handed.migration.hasPath
    /\ tableExists
    /\ ended = "rejected"

\* The last call is a migrate made when the current version was known.
MigrateFromKnown == call.name = "migrate" /\ RevisionAtCall.known

\* The directory the last call was made on.
DirectoryAtCall == [isDirectory |-> call.isDirectory, listing |-> call.listing]

\* What the last migrate passed to discovery.
PassedAtCall == MigrateArguments(DirectoryAtCall, call.target, RevisionAtCall)

\* What discovery returns for the directory, the target, the current version
\* and the scripts of the revision at the last call.
DiscoveryAtCall ==
    discovery(call.isDirectory, call.listing, call.target,
              Render(RevisionAtCall.version), Scripts(RevisionAtCall.migrations))

\* C35: when the current version is known migrate calls discovery with the
\* directory, the caller's target, the current version as base and the scripts
\* recorded at the current version as exclusion list, and executes the groups
\* it returns; when there is none migrate succeeds without a step or a record.
C35_DiscoveryArguments ==
    MigrateFromKnown =>
        /\ Parameter(PassedAtCall, 1) = DirectoryAtCall
        /\ Parameter(PassedAtCall, 2) = call.target
        /\ Parameter(PassedAtCall, 3) = Render(RevisionAtCall.version)
        /\ Parameter(PassedAtCall, 4) = Scripts(RevisionAtCall.migrations)
        /\ \A k \in 1..Len(started) :
              /\ DiscoveryAtCall.ok
              /\ started[k].group \in 1..Len(DiscoveryAtCall.groups)
              /\ started[k].idx \in 1..Len(DiscoveryAtCall.groups[started[k].group])
              /\ DiscoveryAtCall.groups[started[k].group][started[k].idx].script
                    = started[k].script
        /\ (DiscoveryAtCall.ok /\ DiscoveryAtCall.groups = <<>>) =>
              (result = "ok" /\ started = <<>> /\ rows = rows0)

\* The ledger at the last call held a success record for the script at the
\* version.
SucceededBefore(script, version) ==
    \E i \in 1..Len(rows0) :
        /\ rows0[i].script = script
        /\ rows0[i].version = version
        /\ rows0[i].status = 0

Succeeded(script, version) ==
    \E i \in 1..Len(rows) :
        /\ rows[i].script = script
        /\ rows[i].version = version
        /\ rows[i].status = 0

\* The ledger holds, at a version below the given one, a script with a
\* failure record and no success record.
FailureBelow(version) ==
    \E i \in 1..Len(rows) :
        /\ rows[i].status # 0
        /\ ~Succeeded(rows[i].script, rows[i].version)
        /\ compareVersion(version, rows[i].version) = 1

C39_EqualVersionsOneGroup ==
    answer.ok =>
        \A i, j \in 1..Len(answer.groups) :
            i # j => compareVersion(answer.groups[i][1].version,
                                    answer.groups[j][1].version) # 0

====
